---- MODULE Spec2Model ----
(***************************************************************************)
(* A model of ph_sensor.py: the TCS3200 colour sensor driver (class        *)
(* Sensor), its edge callback _cbf, its sequencing thread run, the read    *)
(* buttons and the vector-angle classifier get_ph.                         *)
(*                                                                         *)
(* Python floats are modelled as exact rationals <<n, d>> (d > 0, lowest   *)
(* terms); rounding is not modelled.  The pigpio tick is the 32-bit        *)
(* microsecond counter, kept as two 16-bit limbs [hi, lo].                 *)
(***************************************************************************)
EXTENDS Integers, Sequences, FiniteSets, TLC

\* ------------------------------------------------------------------ bounds
MaxEdges == 2        \* rising edges of OUT the sensor produces in one run
MaxFeed == 4         \* rising edges of a synthetic feed
MaxRaceEdges == 4    \* rising edges of OUT of a sensor with a steady signal
MaxQueue == 2        \* notifications waiting for the callback thread
MaxPress == 2        \* button presses in one run
MaxRef == 1          \* largest component of a reference triplet
MaxRows == 2         \* rows of a reference table
MaxSample == 1       \* largest component of a sample drawn for the classifier
MaxScale == 2        \* numerators and denominators of the scaling constants

\* ------------------------------------------------------- program constants
OUT == 24
S2 == 22
S3 == 23
S0 == 4
S1 == 17
BTN_N == 5
BTN_W == 6
None == -1           \* Python's None, where an integer is expected

\* ---------------------------------------------------------------- numbers
RECURSIVE GCD(_, _)
GCD(a, b) == IF b = 0 THEN a ELSE GCD(b, a % b)

Abs(n) == IF n < 0 THEN -n ELSE n

\* the rational n/d in lowest terms, d > 0
Rat(n, d) ==
    LET g == GCD(Abs(n), d)
    IN <<n \div g, d \div g>>

R(n) == <<n, 1>>
RAdd(a, b) == Rat(a[1] * b[2] + b[1] * a[2], a[2] * b[2])
RMul(a, b) == Rat(a[1] * b[1], a[2] * b[2])
\* a / b, b > 0
RDiv(a, b) == Rat(a[1] * b[2], a[2] * b[1])
RLt(a, b) == a[1] * b[2] < b[1] * a[2]
RLe(a, b) == a[1] * b[2] <= b[1] * a[2]
RZero == <<0, 1>>

\* ------------------------------------------------------------------ ticks
TickLimb == 2 ^ 16

Tick(h, l) == [hi |-> h, lo |-> l]

\* the counter dt microseconds after t, wrapping at 2^32
TickAdd(t, dt) ==
    LET s == t.lo + dt
    IN Tick((t.hi + (s \div TickLimb)) % TickLimb, s % TickLimb)

\* tickDiff without the wraparound: the difference of the two counters read as
\* plain numbers, here that of their low limbs with its sign dropped
tickDiff_Naive(t1, t2) == Abs(t2.lo - t1.lo)

\* t2 - t1, plus 2^32 when that is negative
tickDiff(t1, t2) ==
    LET neg == t2.hi < t1.hi \/ (t2.hi = t1.hi /\ t2.lo < t1.lo)
        hi == (t2.hi - t1.hi) + (IF neg THEN TickLimb ELSE 0)
    IN hi * TickLimb + (t2.lo - t1.lo)

VARIABLES
    \* configuration
    _samples, _interval, _frequency, _filter, pins, out_enabled, _running,
    \* frequency counter (edge callback)
    _cycle, _start_tick, _last_tick, _hertz, _tally, hertz, tally,
    \* sequencer thread
    _delay, _read, run_pc, run_c, run_h, run_seen,
    \* callback thread and the notifications waiting for it
    cb_pc, cb_i, cb_file, cbq,
    \* read requests
    reading, csv, ref_data, sample, ph_found, ret, n_eval, nServed, inGetPh,
    \* the sensor: its tick counter, edges and presses produced so far
    tick, nEdges, nPress,
    \* history: edges and elapsed ticks of the open window, the age in rotations
    \* of each working and each committed value, the channels the latest commit
    \* changed, the last operation
    winN, winElapsed, w_age, h_age, h_new, last

cfgVars == <<_samples, _interval, _frequency, _filter, pins, out_enabled, _running>>
cntVars == <<_cycle, _start_tick, _last_tick, _hertz, _tally, hertz, tally>>
runVars == <<_delay, _read, run_pc, run_c, run_h, run_seen>>
cbVars == <<cb_pc, cb_i, cb_file, cbq>>
reqVars == <<reading, csv, ref_data, sample, ph_found, ret, n_eval, nServed, inGetPh>>
envVars == <<tick, nEdges, nPress>>
histVars == <<winN, winElapsed, w_age, h_age, h_new>>

vars == <<cfgVars, cntVars, runVars, cbVars, reqVars, envVars, histVars, last>>


\* the last operation whose outcome a property speaks of, with its arguments
Last(op, a, b, c) == [op |-> op, a |-> a, b |-> b, c |-> c]
NoLast == Last("other", 0, 0, 0)

Channels == 0 .. 2

\* the age of a value: "init" when it is the one construction left, "this"
\* when a window of the rotation under way measured it, "earlier" when a window
\* of a rotation before that did
Older(a) == IF a = "this" THEN "earlier" ELSE a

\* -------------------------------------------------------------- pin writes
\* a notification of the edge feed: gpio, new level, tick (dt: the ticks since
\* the sensor's previous rising edge, for an edge of OUT)
Event(g, l, t, dt) == [g |-> g, l |-> l, t |-> t, dt |-> dt]

\* the lines whose callbacks cancel() cancels
SensorLines == {OUT, S2, S3}

\* the callback of line g is registered: those of the sensor until cancel()
Registered(g) == g \in SensorLines => _running = "unset"

\* a notification joins those waiting for the callback thread, if it lives and
\* a callback is registered for the line
Enqueue(q, e) == IF cb_pc = "dead" \/ ~Registered(e.g) THEN q ELSE Append(q, e)

\* pi.write(p, lv) seen from the callbacks registered with EITHER_EDGE on S2
\* and S3: a notification when the level of the line changes
WriteQ(q, p, lv) ==
    IF pins[p] # lv THEN Enqueue(q, Event(p, lv, tick, 0)) ELSE q

\* ---------------------------------------------------------- configuration
\* FrequencyLevels with the 2% and 20% pairs exchanged
FrequencyLevels_Swapped(f) ==
    IF f = 0 THEN <<0, 0>>
    ELSE IF f = 1 THEN <<1, 0>>
    ELSE IF f = 2 THEN <<0, 1>>
    ELSE <<1, 1>>

\* the (S0, S1) levels of set_frequency
FrequencyLevels(f) ==
    IF f = 0 THEN <<0, 0>>
    ELSE IF f = 1 THEN <<0, 1>>
    ELSE IF f = 2 THEN <<1, 0>>
    ELSE <<1, 1>>

\* FilterLevels with the Green and Blue pairs exchanged
FilterLevels_Swapped(f) ==
    IF f = 0 THEN <<0, 0>>
    ELSE IF f = 1 THEN <<0, 1>>
    ELSE IF f = 2 THEN <<1, 1>>
    ELSE <<1, 0>>

\* the (S2, S3) levels of _set_filter
FilterLevels(f) ==
    IF f = 0 THEN <<0, 0>>
    ELSE IF f = 1 THEN <<1, 1>>
    ELSE IF f = 2 THEN <<0, 1>>
    ELSE <<1, 0>>

FilterPins(f) ==
    [pins EXCEPT ![S2] = FilterLevels(f)[1], ![S3] = FilterLevels(f)[2]]

FilterQueue(f) ==
    WriteQ(WriteQ(cbq, S2, FilterLevels(f)[1]), S3, FilterLevels(f)[2])

\* _set_filter(f): both writes, and the notifications they raise
set_filter(f) ==
    /\ Len(FilterQueue(f)) <= MaxQueue
    /\ pins' = FilterPins(f)
    /\ cbq' = FilterQueue(f)

\* the filter getter of the specification: the last selection is remembered
remember_filter(f) == _filter' = f

get_filter == _filter

\* ClampSamples without its upper bound
ClampSamples_NoUpper(samples) == IF samples < 10 THEN 10 ELSE samples

ClampSamples(samples) ==
    IF samples < 10 THEN 10
    ELSE IF samples > 100 THEN 100
    ELSE samples

set_sample_size(samples) == _samples' = ClampSamples(samples)

get_sample_size == _samples

IntervalValid(t) == RLe(<<1, 10>>, t) /\ RLt(t, <<2, 1>>)

\* set_update_interval clamping to the range instead of ignoring the call
set_update_interval_Clamps(t) ==
    _interval' = IF RLt(t, <<1, 10>>) THEN <<1, 10>>
                 ELSE IF RLe(<<2, 1>>, t) THEN <<2, 1>>
                 ELSE t

set_update_interval(t) ==
    _interval' = IF IntervalValid(t) THEN t ELSE _interval

get_update_interval == _interval

set_frequency(f) ==
    IF S0 # None /\ S1 # None
    THEN /\ _frequency' = f
         /\ pins' = [pins EXCEPT ![S0] = FrequencyLevels(f)[1],
                                 ![S1] = FrequencyLevels(f)[2]]
    ELSE /\ _frequency' = None
         /\ UNCHANGED pins

get_frequency == _frequency

\* the arguments the configuration calls are tried with
SampleArgs == {9, 10, 50, 101}
IntervalArgs == {<<1, 20>>, <<1, 10>>, <<19, 10>>, <<2, 1>>}
FrequencyArgs == {0, 1, 2, 3, 4}
FilterArgs == 0 .. 3

SetSampleSize(samples) ==
    /\ set_sample_size(samples)
    /\ last' = Last("set_sample_size", samples, _samples, 0)
    /\ UNCHANGED <<_interval, _frequency, _filter, pins, out_enabled, _running>>
    /\ UNCHANGED <<cntVars, runVars, cbVars, reqVars, envVars, histVars>>

SetUpdateInterval(t) ==
    /\ set_update_interval(t)
    /\ last' = Last("set_update_interval", t, _interval, 0)
    /\ UNCHANGED <<_samples, _frequency, _filter, pins, out_enabled, _running>>
    /\ UNCHANGED <<cntVars, runVars, cbVars, reqVars, envVars, histVars>>

SetFrequency(f) ==
    /\ set_frequency(f)
    /\ last' = Last("set_frequency", f, _frequency, 0)
    /\ UNCHANGED <<_samples, _interval, _filter, out_enabled, _running>>
    /\ UNCHANGED <<cntVars, runVars, cbVars, reqVars, envVars, histVars>>

SetFilter(f) ==
    /\ set_filter(f)
    /\ remember_filter(f)
    /\ last' = Last("set_filter", f, _filter, 0)
    /\ UNCHANGED <<_samples, _interval, _frequency, out_enabled, _running>>
    /\ UNCHANGED <<cntVars, runVars, cb_pc, cb_i, cb_file, reqVars, envVars, histVars>>

\* ------------------------------------------------------- frequency counter
\* Colour with the windows of Red and Blue exchanged
Colour_Swapped(g, l) ==
    IF g = S2 THEN 0
    ELSE IF l = 0 THEN 1
    ELSE 2

\* the colour whose window a select-line transition closes
Colour(g, l) ==
    IF g = S2 THEN 2
    ELSE IF l = 0 THEN 1
    ELSE 0

\* WindowHertz counting the edges of the window, not its periods
WindowHertz_CountsEdges(cycle, td) == Rat(1000000 * (cycle + 1), td)

\* the Hertz of a window of cycle counted periods lasting td ticks
WindowHertz(cycle, td) == Rat(1000000 * cycle, td)

\* a rising edge of OUT
cbf_edge(t, dt) ==
    /\ IF _cycle = 0
       THEN _start_tick' = t /\ UNCHANGED _last_tick
       ELSE _last_tick' = t /\ UNCHANGED _start_tick
    /\ _cycle' = _cycle + 1
    /\ UNCHANGED <<_hertz, _tally, hertz, tally, cb_pc, cb_i, w_age, h_age, h_new>>
    /\ winN' = winN + 1
    /\ winElapsed' = IF winN = 0 THEN 0 ELSE winElapsed + dt
    /\ last' = NoLast

\* cbf_clear_red closing a window as the other transitions do: Red is zeroed
cbf_clear_red_ClosesRed ==
    /\ _cycle' = 0
    /\ _hertz' = [_hertz EXCEPT ![0] = RZero]
    /\ _tally' = [_tally EXCEPT ![0] = 0]
    /\ UNCHANGED <<_start_tick, _last_tick, hertz, tally, cb_pc, cb_i, h_new>>
    /\ winN' = 0
    /\ winElapsed' = 0
    /\ w_age' = [c \in Channels |-> Older(w_age[c])]
    /\ h_age' = [c \in Channels |-> Older(h_age[c])]
    /\ last' = Last("clear_red", _cycle, 0, 0)

\* S2 going low: Clear -> Red
cbf_clear_red ==
    /\ _cycle' = 0
    /\ UNCHANGED <<_start_tick, _last_tick, _hertz, _tally, hertz, tally, cb_pc, cb_i, h_new>>
    /\ winN' = 0
    /\ winElapsed' = 0
    /\ w_age' = [c \in Channels |-> Older(w_age[c])]
    /\ h_age' = [c \in Channels |-> Older(h_age[c])]
    /\ last' = Last("clear_red", _cycle, 0, 0)

\* CommitPoint at the close of every window
CommitPoint_EveryClose(colour) == TRUE

\* if colour == 1: the close of the Green window commits
CommitPoint(colour) == colour = 1

\* any other transition of S2 or S3: the window of colour closes.  A window
\* of more than one edge whose first and last tick are equal divides by zero:
\* the exception leaves _cbf after the decrement and ends the callback thread.
cbf_close(colour) ==
    LET td == tickDiff(_start_tick, _last_tick)
    IN IF _cycle > 1 /\ td = 0
       THEN /\ _cycle' = _cycle - 1
            /\ cb_pc' = "dead"
            /\ UNCHANGED <<_start_tick, _last_tick, _hertz, _tally, hertz, tally,
                           cb_i, winN, winElapsed, w_age, h_age, h_new>>
            /\ last' = Last("raise", colour, winN, winElapsed)
       ELSE /\ IF _cycle > 1
               THEN /\ _hertz' = [_hertz EXCEPT ![colour] = WindowHertz(_cycle - 1, td)]
                    /\ _tally' = [_tally EXCEPT ![colour] = _cycle - 1]
               ELSE /\ _hertz' = [_hertz EXCEPT ![colour] = RZero]
                    /\ _tally' = [_tally EXCEPT ![colour] = 0]
            /\ _cycle' = 0
            /\ IF CommitPoint(colour)
               THEN cb_pc' = "copy" /\ cb_i' = 0 /\ h_new' = {}
               ELSE UNCHANGED <<cb_pc, cb_i, h_new>>
            /\ UNCHANGED <<_start_tick, _last_tick, hertz, tally, h_age>>
            /\ w_age' = [w_age EXCEPT ![colour] = "this"]
            /\ winN' = 0
            /\ winElapsed' = 0
            /\ last' = Last("close", colour, winN, winElapsed)

\* _cbf(g, l, t)
cbf(g, l, t, dt) ==
    IF g = OUT THEN cbf_edge(t, dt)
    ELSE IF g = S2 /\ l = 0 THEN cbf_clear_red
    ELSE cbf_close(Colour(g, l))

\* one turn of the loop that copies the working values into the committed
\* reading after the Green window closed
CbCopy ==
    /\ cb_pc = "copy"
    /\ hertz' = [hertz EXCEPT ![cb_i] = _hertz[cb_i]]
    /\ tally' = [tally EXCEPT ![cb_i] = _tally[cb_i]]
    /\ IF cb_i = 2
       THEN cb_pc' = "idle" /\ cb_i' = 0
       ELSE cb_pc' = "copy" /\ cb_i' = cb_i + 1
    /\ h_age' = [h_age EXCEPT ![cb_i] = w_age[cb_i]]
    /\ h_new' = IF hertz[cb_i] # _hertz[cb_i] THEN h_new \cup {cb_i} ELSE h_new
    /\ last' = NoLast
    /\ UNCHANGED <<_cycle, _start_tick, _last_tick, _hertz, _tally>>
    /\ UNCHANGED <<cfgVars, runVars, cb_file, cbq, reqVars, envVars, winN, winElapsed, w_age>>

\* the steps (in ticks) between two rising edges of OUT
Steps == {0, 1, 1000}

\* a synthetic feed: the callback is invoked directly, as the tests do
FeedEdge(dt) ==
    /\ cb_pc = "idle"
    /\ nEdges < MaxFeed
    /\ nEdges' = nEdges + 1
    /\ tick' = TickAdd(tick, dt)
    /\ cbf(OUT, 1, tick', dt)
    /\ UNCHANGED <<cfgVars, runVars, cb_file, cbq, reqVars, nPress>>

FeedSelect(g, l) ==
    /\ cb_pc = "idle"
    /\ cbf(g, l, tick, 0)
    /\ UNCHANGED <<cfgVars, runVars, cb_file, cbq, reqVars, envVars>>


\* ------------------------------------------------------------------- Init
\* the tick counter at construction: anywhere, also just before it wraps
TickStarts == {Tick(0, 0), Tick(TickLimb - 1, TickLimb - 1)}

NoTable == <<>>

Files == {"narrow", "wide"}
NoFiles == {[f \in Files |-> NoTable]}
NoReading == {[c \in Channels |-> RZero]}

\* the state __init__ leaves, with the reference files cs and the tick counter
\* at one of ts; hs: the committed readings the run starts from
InitSensor(cs, ts, hs) ==
    /\ _samples = ClampSamples(20)
    /\ _interval = <<1, 1>>
    /\ _frequency = 2
    /\ _filter = 3
    /\ pins = (S0 :> FrequencyLevels(2)[1]) @@ (S1 :> FrequencyLevels(2)[2])
              @@ (S2 :> FilterLevels(3)[1]) @@ (S3 :> FilterLevels(3)[2])
    /\ out_enabled = TRUE
    /\ _running = "unset"
    /\ _cycle = 0
    /\ _start_tick = Tick(0, 0)
    /\ _last_tick = Tick(0, 0)
    /\ hertz \in hs
    /\ _hertz = hertz
    /\ _tally = [c \in Channels |-> 1]
    /\ tally = [c \in Channels |-> 1]
    /\ _delay = [c \in Channels |-> <<1, 10>>]
    /\ _read = "unset"
    /\ run_pc = "start"
    /\ run_c = 0
    /\ run_h = FALSE
    /\ run_seen = [old |-> {}, cur |-> "init", torn |-> FALSE]
    /\ cb_pc = "idle"
    /\ cb_i = 0
    /\ cb_file = "none"
    /\ cbq = <<>>
    /\ reading = FALSE
    /\ csv \in cs
    /\ ref_data = NoTable
    /\ sample = [c \in Channels |-> RZero]
    /\ ph_found = None
    /\ ret = None
    /\ n_eval = 0
    /\ nServed = 0
    /\ inGetPh = 0
    /\ tick \in ts
    /\ nEdges = 0
    /\ nPress = 0
    /\ winN = 0
    /\ winElapsed = 0
    /\ w_age = [c \in Channels |-> IF hertz \in NoReading THEN "init" ELSE "this"]
    /\ h_age = w_age
    /\ h_new = {}
    /\ last = Last("init", 0, 0, 0)

\* ------------------------------------------- the counter under a synthetic feed
InitCounter == InitSensor(NoFiles, TickStarts, NoReading)

NextCounter ==
    \/ \E dt \in Steps : FeedEdge(dt)
    \/ \E g \in {S2, S3}, l \in {0, 1} : FeedSelect(g, l)
    \/ CbCopy

SpecCounter == InitCounter /\ [][NextCounter]_vars

\* -------------------------------------------------- the configuration calls
\* the callback thread takes the next notification of a select line
DispatchSelect ==
    /\ cb_pc = "idle"
    /\ cbq # <<>>
    /\ Head(cbq).g \in {OUT, S2, S3}
    /\ cbq' = Tail(cbq)
    /\ cbf(Head(cbq).g, Head(cbq).l, Head(cbq).t, Head(cbq).dt)
    /\ UNCHANGED <<cfgVars, runVars, cb_file, reqVars, envVars>>

InitCfg == InitSensor(NoFiles, {Tick(0, 0)}, NoReading)

NextCfg ==
    \/ \E n \in SampleArgs : SetSampleSize(n)
    \/ \E t \in IntervalArgs : SetUpdateInterval(t)
    \/ \E f \in FrequencyArgs : SetFrequency(f)
    \/ \E f \in FilterArgs : SetFilter(f)
    \/ DispatchSelect
    \/ CbCopy

SpecCfg == InitCfg /\ [][NextCfg]_vars



\* -------------------------------------------------------------- classifier
\* get_hertz(): a copy of the committed reading
get_hertz == hertz

Dot(v, s) ==
    RAdd(RAdd(RMul(R(v[1]), s[0]), RMul(R(v[2]), s[1])), RMul(R(v[3]), s[2]))

\* v_length ** 2 and s_length ** 2
RefLength2(v) == R(v[1] * v[1] + v[2] * v[2] + v[3] * v[3])
SampleLength2(s) == RAdd(RAdd(RMul(s[0], s[0]), RMul(s[1], s[1])), RMul(s[2], s[2]))

\* Theta without the length of the sample in the denominator
Theta_NoSampleLength(v, s) ==
    [init |-> FALSE, dot |-> Dot(v, s), l2 |-> RefLength2(v)]

\* the angle of v and s, kept as its cosine dot / sqrt(l2)
Theta(v, s) ==
    [init |-> FALSE, dot |-> Dot(v, s), l2 |-> RMul(RefLength2(v), SampleLength2(s))]

\* min_angle = 360
MinAngle360 == [init |-> TRUE, dot |-> RZero, l2 |-> R(1)]

\* math.acos is defined on [-1, 1] (the products here are never negative)
AcosDefined(th) == RLe(RMul(th.dot, th.dot), th.l2)

\* ThetaLess letting an equal angle replace the best one
ThetaLess_OrEqual(th, m) ==
    \/ m.init
    \/ RLe(RMul(RMul(m.dot, m.dot), th.l2), RMul(RMul(th.dot, th.dot), m.l2))

\* theta < min_angle: every angle is below 360; of two angles in [0, pi/2] the
\* smaller has the larger cosine
ThetaLess(th, m) ==
    \/ m.init
    \/ RLt(RMul(RMul(m.dot, m.dot), th.l2), RMul(RMul(th.dot, th.dot), m.l2))

\* the loop over ref_data from row i on; raised: the division by a zero length
\* or acos outside its domain
RECURSIVE Scan(_, _, _, _, _)
Scan(tbl, s, i, min_angle, found) ==
    IF i > Len(tbl)
    THEN [ph_found |-> found, ret |-> None, raised |-> FALSE, n_eval |-> Len(tbl)]
    ELSE LET th == Theta(tbl[i].v, s)
         IN IF th.l2 = RZero \/ ~AcosDefined(th)
            THEN [ph_found |-> found, ret |-> None, raised |-> TRUE, n_eval |-> i]
            ELSE IF ThetaLess(th, min_angle)
                 THEN Scan(tbl, s, i + 1, th, tbl[i].ph)
                 ELSE Scan(tbl, s, i + 1, min_angle, found)

\* SampleUnusable rejecting nothing
SampleUnusable_Never(s) == FALSE

\* all(v == 0 for v in sample); a copy of hertz is never None or empty
SampleUnusable(s) == \A c \in Channels : s[c] = RZero

\* get_ph on sample s and the loaded table tbl
Classify(s, tbl) ==
    IF SampleUnusable(s)
    THEN [ph_found |-> None, ret |-> 0, raised |-> FALSE, n_eval |-> 0]
    ELSE Scan(tbl, s, 1, MinAngle360, None)

\* get_ph(file): what it loads, reads and finds
get_ph(file) ==
    LET r == Classify(get_hertz, csv[file])
    IN /\ ref_data' = csv[file]
       /\ sample' = get_hertz
       /\ ph_found' = r.ph_found
       /\ ret' = r.ret
       /\ n_eval' = r.n_eval
       /\ last' = Last("get_ph", file, IF r.raised THEN 1 ELSE 0, 0)

\* reference triplets, and the tables of up to MaxRows rows (the rows of a
\* loaded table have distinct labels: row i is labelled i)
RefTriplets == (0 .. MaxRef) \X (0 .. MaxRef) \X (0 .. MaxRef)
TableOf(vs) == [i \in 1 .. Len(vs) |-> [ph |-> i, v |-> vs[i]]]
Tables == UNION {{TableOf(vs) : vs \in [1 .. n -> RefTriplets]} : n \in 0 .. MaxRows}
Samples == [Channels -> {R(n) : n \in 0 .. MaxSample}]
Scales == {Rat(a, b) : a \in 1 .. MaxScale, b \in 1 .. MaxScale}
Scaled(k, s) == [c \in Channels |-> RMul(k, s[c])]

\* get_ph called on the committed reading
CallGetPh(file) ==
    /\ get_ph(file)
    /\ UNCHANGED <<reading, csv, nServed, inGetPh>>
    /\ UNCHANGED <<cfgVars, cntVars, runVars, cbVars, envVars, histVars>>

InitClassify ==
    InitSensor({[narrow |-> t, wide |-> NoTable] : t \in Tables}, {Tick(0, 0)}, Samples)

NextClassify == \E file \in Files : CallGetPh(file)

SpecClassify == InitClassify /\ [][NextClassify]_vars


\* ------------------------------------------------------- sequencer thread
\* ClampDelay without its lower bound
ClampDelay_NoLower(dly) == IF RLt(<<1, 2>>, dly) THEN <<1, 2>> ELSE dly

\* ClampDelay without its upper bound
ClampDelay_NoUpper(dly) == IF RLt(dly, <<1, 1000>>) THEN <<1, 1000>> ELSE dly

\* dly constrained to [0.001, 0.5]
ClampDelay(dly) ==
    IF RLt(dly, <<1, 1000>>) THEN <<1, 1000>>
    ELSE IF RLt(<<1, 2>>, dly) THEN <<1, 2>>
    ELSE dly

\* run(): self._read = True
RunStart ==
    /\ run_pc = "start"
    /\ _read' = "True"
    /\ run_pc' = "loop"
    /\ last' = NoLast
    /\ UNCHANGED <<_delay, run_c, run_h, run_seen>>
    /\ UNCHANGED <<cfgVars, cntVars, cbVars, reqVars, envVars, histVars>>

\* the head of the loop: a rotation starts by enabling OUT, or the thread
\* sleeps 0.1 s while paused
RunLoop ==
    /\ run_pc = "loop"
    /\ IF _read = "True"
       THEN /\ out_enabled' = TRUE
            /\ run_pc' = "red"
       ELSE UNCHANGED <<out_enabled, run_pc>>
    /\ last' = NoLast
    /\ UNCHANGED <<_samples, _interval, _frequency, _filter, pins, _running>>
    /\ UNCHANGED <<_delay, _read, run_c, run_h, run_seen>>
    /\ UNCHANGED <<cntVars, cbVars, reqVars, envVars, histVars>>

\* _set_filter(f) of the rotation, and the sleep that follows it
RunFilter(pc, f, next) ==
    /\ run_pc = pc
    /\ set_filter(f)
    /\ remember_filter(f)
    /\ run_pc' = next
    /\ last' = NoLast
    /\ UNCHANGED <<_samples, _interval, _frequency, out_enabled, _running>>
    /\ UNCHANGED <<_delay, _read, run_c, run_h, run_seen>>
    /\ UNCHANGED <<cntVars, cb_pc, cb_i, cb_file, reqVars, envVars, histVars>>

RunRed == RunFilter("red", 0, "blue")

\* RunBlue selecting Green: the rotation in the order Red, Green, Blue
RunBlue_SelectsGreen == RunFilter("blue", 1, "green")

RunBlue == RunFilter("blue", 2, "green")
RunGreen == RunFilter("green", 1, "clear")

\* OUT is disabled, Clear is selected, the rest of the interval is slept
RunClear ==
    /\ run_pc = "clear"
    /\ out_enabled' = FALSE
    /\ set_filter(3)
    /\ remember_filter(3)
    /\ run_pc' = "tune"
    /\ run_c' = 0
    /\ last' = NoLast
    /\ UNCHANGED <<_samples, _interval, _frequency, _running>>
    /\ UNCHANGED <<_delay, _read, run_h, run_seen>>
    /\ UNCHANGED <<cntVars, cb_pc, cb_i, cb_file, reqVars, envVars, histVars>>

\* what a pass of the tuning loop has seen of the committed reading: old, the
\* channels it read before the commit of the rotation wrote them; cur, the age
\* of the value its test read; torn, whether it has read a value the commit
\* changed after reading, of another channel, the value the commit replaced
NotSeen == [old |-> {}, cur |-> "init", torn |-> FALSE]

\* if self.hertz[c]:
RunTuneTest ==
    /\ run_pc = "tune"
    /\ run_h' = (hertz[run_c] # RZero)
    /\ run_seen' = [run_seen EXCEPT !.cur = h_age[run_c]]
    /\ run_pc' = "tune_set"
    /\ last' = NoLast
    /\ UNCHANGED <<_delay, _read, run_c>>
    /\ UNCHANGED <<cfgVars, cntVars, cbVars, reqVars, envVars, histVars>>

\* dly is computed from hertz[c], read again, or from the delay; a reading that
\* became zero since the test divides by zero and ends the thread
RunTuneSet ==
    /\ run_pc = "tune_set"
    /\ IF run_h /\ hertz[run_c] = RZero
       THEN /\ run_pc' = "dead"
            /\ last' = Last("run_raise", run_c, 0, 0)
            /\ UNCHANGED <<_delay, run_c, run_seen>>
       ELSE LET h == IF run_h THEN hertz[run_c] ELSE RZero
                dly == IF run_h
                       THEN RDiv(R(_samples), hertz[run_c])
                       ELSE RAdd(_delay[run_c], <<1, 10>>)
                \* the age of the value used: read now, or by the test
                age == IF run_h THEN h_age[run_c] ELSE run_seen.cur
                torn == \/ run_seen.torn
                        \/ /\ age = "this"
                           /\ run_c \in h_new
                           /\ run_seen.old \cap h_new # {}
                seen == [old |-> IF age = "this" THEN run_seen.old
                                 ELSE run_seen.old \cup {run_c},
                         cur |-> run_seen.cur,
                         torn |-> torn]
            IN /\ _delay' = [_delay EXCEPT ![run_c] = ClampDelay(dly)]
               /\ last' = Last("tune", run_c, h, <<_samples, _delay[run_c], torn>>)
               /\ IF run_c = 2
                  THEN run_pc' = "loop" /\ run_c' = 0 /\ run_seen' = NotSeen
                  ELSE run_pc' = "tune" /\ run_c' = run_c + 1 /\ run_seen' = seen
    /\ UNCHANGED <<_read, run_h>>
    /\ UNCHANGED <<cfgVars, cntVars, cbVars, reqVars, envVars, histVars>>

Run == RunStart \/ RunLoop \/ RunRed \/ RunBlue \/ RunGreen \/ RunClear
       \/ RunTuneTest \/ RunTuneSet

\* ------------------------------------------------------------ the edge feed
\* the sensor raises OUT dt ticks after its previous edge; the pin follows it
\* while it is an input
Edge(dt, limit) ==
    /\ out_enabled
    /\ nEdges < limit
    /\ Len(cbq) < MaxQueue
    /\ nEdges' = nEdges + 1
    /\ tick' = TickAdd(tick, dt)
    /\ cbq' = Enqueue(cbq, Event(OUT, 1, tick', dt))
    /\ last' = NoLast
    /\ UNCHANGED <<cfgVars, cntVars, runVars, cb_pc, cb_i, cb_file, reqVars, nPress, histVars>>

EdgeOUT(dt) == Edge(dt, MaxEdges)

\* a button is pressed
ButtonPress(b) ==
    /\ nPress < MaxPress
    /\ Len(cbq) < MaxQueue
    /\ nPress' = nPress + 1
    /\ cbq' = Enqueue(cbq, Event(b, 1, tick, 0))
    /\ last' = NoLast
    /\ UNCHANGED <<cfgVars, cntVars, runVars, cb_pc, cb_i, cb_file, reqVars, tick, nEdges, histVars>>

\* -------------------------------------------------------- callback thread
FileOf(b) == IF b = BTN_N THEN "narrow" ELSE "wide"

\* ButtonCallbackMayRun with a thread of its own for every callback
ButtonCallbackMayRun_Concurrently == cb_pc # "dead"

\* the callbacks of pigpio run one after the other in its callback thread: the
\* next one starts when the thread is idle
ButtonCallbackMayRun == cb_pc = "idle"

\* narrow_read / wide_read: the press is taken up unless a reading is marked
\* in progress
DispatchButton ==
    /\ ButtonCallbackMayRun
    /\ cbq # <<>>
    /\ Head(cbq).g \in {BTN_N, BTN_W}
    /\ cbq' = Tail(cbq)
    /\ IF ~reading
       THEN /\ reading' = TRUE
            /\ cb_pc' = "get_ph"
            /\ cb_file' = FileOf(Head(cbq).g)
            /\ nServed' = nServed + 1
            /\ inGetPh' = inGetPh + 1
       ELSE UNCHANGED <<reading, cb_pc, cb_file, nServed, inGetPh>>
    /\ last' = Last("button", Head(cbq).g, IF reading THEN 1 ELSE 0, 0)
    /\ UNCHANGED <<csv, ref_data, sample, ph_found, ret, n_eval>>
    /\ UNCHANGED <<cfgVars, cntVars, runVars, cb_i, envVars, histVars>>

\* the chime has sounded: get_ph(file) runs in the callback thread, which an
\* exception in it ends
CbGetPh ==
    /\ cb_pc = "get_ph"
    /\ get_ph(cb_file)
    /\ cb_pc' = IF Classify(get_hertz, csv[cb_file]).raised THEN "dead" ELSE "idle"
    /\ inGetPh' = inGetPh - 1
    /\ UNCHANGED <<reading, csv, nServed>>
    /\ UNCHANGED <<cfgVars, cntVars, runVars, cb_i, cb_file, cbq, envVars, histVars>>

\* the main loop: once a second, s.reading = False
MainReset ==
    /\ reading' = FALSE
    /\ last' = NoLast
    /\ UNCHANGED <<csv, ref_data, sample, ph_found, ret, n_eval, nServed, inGetPh>>
    /\ UNCHANGED <<cfgVars, cntVars, runVars, cbVars, envVars, histVars>>

\* ------------------------------------------- calls of the thread that owns
\* the sensor
\* pause(): self._read = False
Pause ==
    /\ _read' = "False"
    /\ last' = Last("pause", 0, 0, 0)
    /\ UNCHANGED <<_delay, run_pc, run_c, run_h, run_seen>>
    /\ UNCHANGED <<cfgVars, cntVars, cbVars, reqVars, envVars, histVars>>

\* resume(): self._read = True
Resume ==
    /\ _read' = "True"
    /\ last' = Last("resume", 0, 0, 0)
    /\ UNCHANGED <<_delay, run_pc, run_c, run_h, run_seen>>
    /\ UNCHANGED <<cfgVars, cntVars, cbVars, reqVars, envVars, histVars>>

\* cancel(), called once: the callbacks of OUT, S2 and S3 are cancelled, which
\* drops their waiting notifications; the divider is set off and Clear is
\* selected; OUT gets back the mode it had before construction, an input or
\* not; self._running = False.  The sequencer thread is not told.
Cancel ==
    /\ _running = "unset"
    /\ cbq' = SelectSeq(cbq, LAMBDA e : e.g \notin SensorLines)
    /\ _frequency' = IF S0 # None /\ S1 # None THEN 0 ELSE None
    /\ _filter' = 3
    /\ pins' = [pins EXCEPT ![S0] = FrequencyLevels(0)[1],
                            ![S1] = FrequencyLevels(0)[2],
                            ![S2] = FilterLevels(3)[1],
                            ![S3] = FilterLevels(3)[2]]
    /\ \E mode_OUT \in BOOLEAN : out_enabled' = mode_OUT
    /\ _running' = "False"
    /\ last' = Last("cancel", 0, 0, 0)
    /\ UNCHANGED <<_samples, _interval>>
    /\ UNCHANGED <<cntVars, runVars, cb_pc, cb_i, cb_file, reqVars, envVars, histVars>>

\* --------------------------------- the sequencer tuning its delays (no reads)
TuneSteps == {1, 1000, 100000}
TuneSampleArgs == {100}

InitTune == InitSensor(NoFiles, {Tick(0, 0)}, NoReading)

NextTune ==
    \/ Run
    \/ \E dt \in TuneSteps : EdgeOUT(dt)
    \/ DispatchSelect
    \/ CbCopy
    \/ \E n \in TuneSampleArgs : SetSampleSize(n)

SpecTune == InitTune /\ [][NextTune]_vars

\* ------ the sequencer and a sensor that raises OUT once a second, long enough
\* for two windows of two edges
InitRace == InitSensor(NoFiles, {Tick(0, 0)}, NoReading)

NextRace ==
    \/ Run
    \/ Edge(1000000, MaxRaceEdges)
    \/ DispatchSelect
    \/ CbCopy

SpecRace == InitRace /\ [][NextRace]_vars

\* ----------------- the sequencer, a sensor that raises OUT every millisecond,
\* and an owner that pauses, resumes and cancels
LifeSteps == {1000}

InitLife == InitSensor(NoFiles, {Tick(0, 0)}, NoReading)

NextLife ==
    \/ Run
    \/ \E dt \in LifeSteps : EdgeOUT(dt)
    \/ DispatchSelect
    \/ CbCopy
    \/ Pause
    \/ Resume
    \/ Cancel

SpecLife == InitLife /\ [][NextLife]_vars

\* ------------------------------------------------------------ the program
\* the reference files of the run, and edges a second apart
RunFiles == {[narrow |-> TableOf(<<<<1, 1, 1>>>>),
              wide |-> TableOf(<<<<1, 0, 0>>, <<0, 1, 1>>>>)]}
SlowSteps == {1000000}

Init == InitSensor(RunFiles, {Tick(0, 0)}, NoReading)

Next ==
    \/ Run
    \/ \E dt \in SlowSteps : EdgeOUT(dt)
    \/ \E b \in {BTN_N, BTN_W} : ButtonPress(b)
    \/ DispatchSelect
    \/ DispatchButton
    \/ CbCopy
    \/ CbGetPh
    \/ MainReset

Spec == Init /\ [][Next]_vars

\* ------------------------------------------------------------------ claims

\* C1: when a select-line transition closes a window in which N rising edges
\* were delivered, the Hertz recorded for the closed channel is
\* 1_000_000 * (N - 1) / elapsed, elapsed being the ticks from the first to
\* the last edge of the window, and 0 when N <= 1.  (A window of N > 1 edges
\* with elapsed = 0 has no such quotient: there, and only there, _cbf raises.)
C1_WindowHertz ==
    /\ last.op = "close" =>
          IF last.b > 1
          THEN /\ last.c > 0
               /\ _hertz[last.a] = Rat(1000000 * (last.b - 1), last.c)
          ELSE _hertz[last.a] = RZero
    /\ last.op = "raise" => last.b > 1 /\ last.c = 0

\* a window of three edges or more, lasting a positive time, has been closed
C1_Witness ==
    /\ last.op = "close"
    /\ last.b >= 3
    /\ last.c > 0
    /\ _hertz[last.a] # RZero

\* C6: after any sequence of set_sample_size calls get_sample_size is in
\* [10, 100]: the argument when it is in the range, else the nearer bound.
C6_SampleSizeClamped ==
    /\ get_sample_size >= 10
    /\ get_sample_size <= 100
    /\ last.op = "set_sample_size" =>
          get_sample_size = (IF last.a < 10 THEN 10
                             ELSE IF last.a > 100 THEN 100
                             ELSE last.a)

\* set_sample_size(101) was called and the size is 100
C6_Witness ==
    /\ last.op = "set_sample_size"
    /\ last.a = 101
    /\ get_sample_size = 100

C8_FrequencyLines ==
    last.op = "set_frequency" =>
        /\ last.a \in 0 .. 3 => get_frequency = last.a
        /\ <<pins[S0], pins[S1]>> =
              (CASE last.a = 0 -> <<0, 0>>
                 [] last.a = 1 -> <<0, 1>>
                 [] last.a = 2 -> <<1, 0>>
                 [] last.a >= 3 -> <<1, 1>>)

\* set_frequency(1) was called after another divider had been selected
C8_Witness ==
    /\ last.op = "set_frequency"
    /\ last.a = 1
    /\ last.b = 3
    /\ get_frequency = 1

C2_Cos2(v, s) == RDiv(RMul(Dot(v, s), Dot(v, s)), RMul(RefLength2(v), SampleLength2(s)))

\* row i of the table is as near to the sample as any row, and nearer than
\* every row before it
C2_FirstNearest(tbl, s, i) ==
    /\ \A j \in 1 .. Len(tbl) : RLe(C2_Cos2(tbl[j].v, s), C2_Cos2(tbl[i].v, s))
    /\ \A j \in 1 .. (i - 1) : RLt(C2_Cos2(tbl[j].v, s), C2_Cos2(tbl[i].v, s))

C2_AllRowsNonzero(tbl) == \A j \in 1 .. Len(tbl) : tbl[j].v # <<0, 0, 0>>

C3_ZeroSampleNoMatch ==
    (last.op = "get_ph" /\ \A c \in Channels : sample[c] = RZero) =>
        /\ ret = 0
        /\ n_eval = 0
        /\ last.b = 0
        /\ ph_found = None

\* an all-zero sample met a table that holds a zero reference triplet
C3_Witness ==
    /\ last.op = "get_ph"
    /\ \A c \in Channels : sample[c] = RZero
    /\ Len(ref_data) = 2
    /\ ref_data[1].v = <<0, 0, 0>>
    /\ ret = 0

C5_DelayAdapted ==
    last.op = "tune" =>
        LET H == last.b
            T == last.c[1]
            previous == last.c[2]
            target == IF RLt(RZero, H) THEN RDiv(R(T), H) ELSE RAdd(previous, <<1, 10>>)
        IN _delay[last.a] = (IF RLt(target, <<1, 1000>>) THEN <<1, 1000>>
                             ELSE IF RLt(<<1, 2>>, target) THEN <<1, 2>>
                             ELSE target)

\* a channel read at 1 MHz was retuned: 20 / 1000000 s is below 0.001 s
C5_Witness ==
    /\ last.op = "tune"
    /\ last.b = R(1000000)
    /\ _delay[last.a] = <<1, 1000>>

\* the read requests delivered and not yet taken up by the callback thread
C10_Queued == Len(SelectSeq(cbq, LAMBDA e : e.g \in {BTN_N, BTN_W}))

\* C10: no read request is dropped: every request delivered so far has been
\* taken into service or is still queued.
C10_NoRequestDropped == nPress = nServed + C10_Queued

\* C11: at most one read request is inside get_ph at any time, however the
\* button events interleave with the main loop resetting the reading flag.
C11_OneReadAtATime == inGetPh <= 1

\* the main loop reset the flag while a request is inside get_ph and another
\* press is waiting for the callback thread
C11_Witness ==
    /\ inGetPh = 1
    /\ cb_pc = "get_ph"
    /\ ~reading
    /\ \E i \in 1 .. Len(cbq) : cbq[i].g \in {BTN_N, BTN_W}

\* the sensor has raised OUT for the last time and none of its edges is waiting
C12_FeedStalled ==
    /\ nEdges = MaxEdges
    /\ \A i \in 1 .. Len(cbq) : cbq[i].g # OUT

\* C12: once the edge feed has stalled, a read request completes with the
\* no-signal result (0, no label), also after a nonzero commit.
C12_StalledReadNoSignal ==
    (last.op = "get_ph" /\ C12_FeedStalled) =>
        /\ last.b = 0
        /\ ret = 0
        /\ ph_found = None

\* C13: a pass of the tuning loop of run never uses, for one channel, the value
\* a commit wrote and, for another, the value that commit replaced.
C13_NoTornRead == last.op = "tune" => ~last.c[3]

\* C14: in every state the committed triplet is all-zero, or its three values
\* were measured by windows of one and the same rotation (none is left from
\* an earlier rotation or from construction).
C14_SameRotation ==
    \/ \A c \in Channels : hertz[c] = RZero
    \/ /\ h_age[0] # "init"
       /\ \A c \in Channels : h_age[c] = h_age[0]

\* C15: for every reference table and nonzero sample the scan of get_ph ends
\* without a division by zero: an all-zero reference triplet is skipped.
C15_ZeroRowRejected ==
    (last.op = "get_ph" /\ ~SampleUnusable(sample)) => last.b = 0

\* the last edge of the window has a smaller tick than its first edge
C16_RolledOver ==
    \/ _last_tick.hi < _start_tick.hi
    \/ _last_tick.hi = _start_tick.hi /\ _last_tick.lo < _start_tick.lo

\* C16: when the tick counter rolls over between the first and the last edge
\* of a window of N > 1 edges, the window still closes with the Hertz
\* 1_000_000 * (N - 1) / elapsed, elapsed being the true ticks between them.
C16_WraparoundSafe ==
    (/\ last.op \in {"close", "raise"}
     /\ last.b > 1
     /\ last.c > 0
     /\ C16_RolledOver) =>
        /\ last.op = "close"
        /\ _hertz[last.a] = Rat(1000000 * (last.b - 1), last.c)

\* a window of three edges was closed whose first edge came before the
\* rollover and whose last edge after it
C16_Witness ==
    /\ last.op = "close"
    /\ last.b = 3
    /\ last.c > 1000
    /\ C16_RolledOver
    /\ _hertz[last.a] # RZero

\* C17: hertz and tally change only in the copy that the close of the Green
\* window starts, and when that copy ends they hold the three working values;
\* rising edges of OUT and the closes of Red and Blue leave them unchanged.
C17_CommitOnlyAtGreenClose ==
    [][/\ (hertz' # hertz \/ tally' # tally) => cb_pc = "copy"
       /\ (cb_pc # "copy" /\ cb_pc' = "copy") => (last'.op = "close" /\ last'.a = 1)
       /\ (cb_pc = "copy" /\ cb_pc' # "copy") => (hertz' = _hertz' /\ tally' = _tally')
      ]_vars

\* after a commit of a measured Red value the Red window closed again, empty:
\* the working value is 0 and the committed one is still the measured one
C17_Witness ==
    /\ last.op = "close"
    /\ last.a = 0
    /\ _hertz[0] = RZero
    /\ hertz[0] # RZero
    /\ hertz[1] = _hertz[1]

\* C18: S2 going low resets the cycle counter to zero and changes nothing
\* else, whatever the counter held: no working or committed Hertz or tally.
C18_ClearRedOnlyResets ==
    [][last'.op = "clear_red" =>
          /\ _cycle' = 0
          /\ UNCHANGED <<_hertz, _tally, hertz, tally, _start_tick, _last_tick>>
      ]_vars

\* S2 went low with two edges counted and a measured working value in place
C18_Witness ==
    /\ last.op = "clear_red"
    /\ last.a = 2
    /\ _cycle = 0
    /\ \E c \in Channels : _hertz[c] # RZero

\* the callback thread takes a notification of a select line that closes a
\* window
C19_Closing ==
    /\ cb_pc = "idle"
    /\ cbq # <<>>
    /\ cbq' = Tail(cbq)
    /\ Head(cbq).g \in {S2, S3}
    /\ ~(Head(cbq).g = S2 /\ Head(cbq).l = 0)

\* C19: S2 going high closes Blue, S3 going low closes Green, S3 going high
\* closes Red; the value is stored in that channel and the working values of
\* the other two channels are unchanged.
C19_FixedMapping ==
    [][C19_Closing =>
          LET e == Head(cbq)
              x == IF e.g = S2 THEN 2 ELSE IF e.l = 0 THEN 1 ELSE 0
          IN /\ last'.op = "close"
             /\ last'.a = x
             /\ _hertz'[x] = (IF last'.b > 1
                              THEN Rat(1000000 * (last'.b - 1), last'.c)
                              ELSE RZero)
             /\ \A c \in Channels \ {x} :
                   _hertz'[c] = _hertz[c] /\ _tally'[c] = _tally[c]
      ]_vars

\* the Blue window closed with a measured value; Red and Green hold none
C19_Witness ==
    /\ last.op = "close"
    /\ last.a = 2
    /\ last.b = 2
    /\ _hertz[2] # RZero
    /\ _hertz[0] = RZero

\* the levels of (S2, S3)
C20_Lines == <<pins[S2], pins[S3]>>

\* the selections that follow one another, and the one notification each raises
C20_Order ==
    {[from |-> <<1, 0>>, to |-> <<0, 0>>, g |-> S2, l |-> 0],
     [from |-> <<0, 0>>, to |-> <<0, 1>>, g |-> S3, l |-> 1],
     [from |-> <<0, 1>>, to |-> <<1, 1>>, g |-> S2, l |-> 1],
     [from |-> <<1, 1>>, to |-> <<1, 0>>, g |-> S3, l |-> 0]}

\* C20: the sequencer selects Red, Blue, Green, Clear in this order, starting
\* from the Clear of construction; each selection changes the level of exactly
\* one of S2 and S3 and raises exactly one notification, the one of that line.
C20_OneLinePerSelection ==
    [][/\ (run_pc \in {"red", "blue", "green", "clear"} /\ run_pc' # run_pc) =>
             C20_Lines' # C20_Lines
       /\ C20_Lines' # C20_Lines =>
             \E o \in C20_Order :
                /\ o.from = C20_Lines
                /\ o.to = C20_Lines'
                /\ cbq' = Append(cbq, Event(o.g, o.l, tick, 0))
      ]_vars

\* Red was selected after the Clear of an earlier rotation, whose tuning loop
\* has lengthened the delay of Red
C20_Witness ==
    /\ run_pc = "blue"
    /\ C20_Lines = <<0, 0>>
    /\ _delay[0] = <<1, 5>>
    /\ cbq # <<>>
    /\ cbq[Len(cbq)].g = S2
    /\ cbq[Len(cbq)].l = 0

\* C21: in every reachable state each of the three per-channel delays lies in
\* [0.001, 0.5] seconds, whatever the committed Hertz values and the sample
\* target of the rotations so far.
C21_DelaysInRange ==
    \A c \in Channels :
        /\ RLe(<<1, 1000>>, _delay[c])
        /\ RLe(_delay[c], <<1, 2>>)

\* a channel read at 10 Hz was retuned: its target over 10 Hz is above 0.5 s,
\* and the delay is 0.5 s
C21_Witness ==
    /\ last.op = "tune"
    /\ last.b = R(10)
    /\ RLt(<<1, 2>>, RDiv(R(last.c[1]), last.b))
    /\ _delay[last.a] = <<1, 2>>

\* a step of the callback thread inside _cbf: a notification is taken from the
\* queue, or the copy loop of the commit advances
C22_CallbackStep ==
    \/ cb_pc' # cb_pc
    \/ cb_i' # cb_i
    \/ cbq # <<>> /\ cbq' = Tail(cbq)

\* a step of the sequencer thread inside run
C22_RunStep == run_pc' # run_pc

\* C22: _cbf writes only the counter state and the committed reading, never
\* the per-channel delays, the sample target or the interval; run writes only
\* the per-channel delays and the pins (with the filter selected on them),
\* never the counter state, the committed reading or any other field.
C22_Frame ==
    [][/\ C22_CallbackStep => UNCHANGED <<cfgVars, _delay, _read>>
       /\ C22_RunStep => UNCHANGED <<cntVars, _samples, _interval, _frequency, _read>>
      ]_vars

\* C24: a window close never divides by zero: when a window-closing transition
\* is processed with a cycle count above 1, the ticks from the first to the
\* last edge of the window are strictly positive, whatever the steps (zero
\* included) between the timestamps of the feed.
C24_CloseNeverDividesByZero ==
    (last.op \in {"close", "raise"} /\ last.b > 1) =>
        /\ tickDiff(_start_tick, _last_tick) > 0
        /\ last.op = "close"

\* C23: the Hertz recorded for a channel is computed only from the rising
\* edges delivered between the transition that opened its window and the one
\* that closed it: the cycle counter is zero right after every select-line
\* transition, so it counts the edges of the window under way and no others,
\* and a close records the count and the Hertz of those edges.
C23_OnlyEdgesOfTheWindow ==
    /\ last.op \in {"close", "raise", "clear_red"} => _cycle = 0
    /\ _cycle = winN
    /\ last.op = "close" =>
          /\ _tally[last.a] = (IF last.b > 1 THEN last.b - 1 ELSE 0)
          /\ _hertz[last.a] = (IF last.b > 1
                               THEN Rat(1000000 * (last.b - 1), last.c)
                               ELSE RZero)

\* C25: after pause() returns the sequencer starts no new rotation until
\* resume() is called, however pause() interleaves with the sequencer thread:
\* the flag pause() clears stays cleared until resume() sets it, and run
\* starts a rotation only when it finds the flag set.
C25_PausedUntilResume ==
    [][/\ (_read = "False" /\ _read' # "False") => last'.op = "resume"
       /\ (run_pc = "loop" /\ run_pc' = "red") => _read = "True"
      ]_vars

\* the select lines at Clear and the divider off
C26_Released ==
    /\ <<pins[S2], pins[S3]>> = FilterLevels(3)
    /\ <<pins[S0], pins[S1]>> = FrequencyLevels(0)

\* C26: after cancel() returns the sensor is released: no step writes the
\* select lines or changes OUT between input and output, the filter stays at
\* Clear, the divider stays off, and the committed reading no longer changes.
C26_ReleasedAfterCancel ==
    [][/\ _running' = "False" => C26_Released'
       /\ _running = "False" => UNCHANGED <<pins, out_enabled, hertz, tally>>
      ]_vars

====
